---------------------------- MODULE Spec2Model ----------------------------
(***************************************************************************)
(* A model of md_img_sync.py: the URL extractor, the filename deriver, the  *)
(* fetcher (download_with_resume), the batch downloader, the document       *)
(* rewriter (new_md) and the driver (main).                                 *)
(*                                                                          *)
(* Text is a sequence of one-character strings, so that the regular         *)
(* expression, urlsplit, unquote and str.replace are computed character by  *)
(* character, as the code and the library compute them.                     *)
(***************************************************************************)
EXTENDS Integers, Sequences, FiniteSets, TLC

(***************************************************************************)
(* Bounds of the model.                                                     *)
(***************************************************************************)
\* the longest document of SpecText, in segments of the Segments table
MaxSegs == 2
\* the longest mdfile_list
MaxFiles == 2
\* the longest response body, in bytes
MaxBody == 2
\* the longest chunk of iter_content, in bytes (CHUNK_SIZE, scaled down)
ChunkSize == 2

(***************************************************************************)
(* Characters.                                                              *)
(***************************************************************************)
\* the 128 ASCII characters by code; a control character without a TLA+
\* escape (and the backquote, \x60) is written as the four characters \xNN
ASCII ==
  << "\\x00", "\\x01", "\\x02", "\\x03", "\\x04", "\\x05", "\\x06", "\\x07",
     "\\x08", "\t", "\n", "\\x0b", "\f", "\r", "\\x0e", "\\x0f",
     "\\x10", "\\x11", "\\x12", "\\x13", "\\x14", "\\x15", "\\x16", "\\x17",
     "\\x18", "\\x19", "\\x1a", "\\x1b", "\\x1c", "\\x1d", "\\x1e", "\\x1f",
     " ", "!", "\"", "#", "$", "%", "&", "'",
     "(", ")", "*", "+", ",", "-", ".", "/",
     "0", "1", "2", "3", "4", "5", "6", "7",
     "8", "9", ":", ";", "<", "=", ">", "?",
     "@", "A", "B", "C", "D", "E", "F", "G",
     "H", "I", "J", "K", "L", "M", "N", "O",
     "P", "Q", "R", "S", "T", "U", "V", "W",
     "X", "Y", "Z", "[", "\\", "]", "^", "_",
     "\\x60", "a", "b", "c", "d", "e", "f", "g",
     "h", "i", "j", "k", "l", "m", "n", "o",
     "p", "q", "r", "s", "t", "u", "v", "w",
     "x", "y", "z", "{", "|", "}", "~", "\\x7f" >>

AsciiSet == {ASCII[i] : i \in DOMAIN ASCII}

\* chr(b) for an ASCII code b
Chr(b) == ASCII[b + 1]

OrdMap == [c \in AsciiSet |-> (CHOOSE i \in DOMAIN ASCII : ASCII[i] = c) - 1]

\* ord(c) for an ASCII character; -1 for any other character
Ord(c) == IF c \in AsciiSet THEN OrdMap[c] ELSE -1

LowerMap ==
  [c \in AsciiSet |->
     IF OrdMap[c] >= Ord("A") /\ OrdMap[c] <= Ord("Z")
     THEN Chr(OrdMap[c] + (Ord("a") - Ord("A"))) ELSE c]

\* the case folding of re.IGNORECASE and str.lower(), on ASCII
Lower(c) == IF c \in AsciiSet THEN LowerMap[c] ELSE c

LowerStr(s) == [i \in DOMAIN s |-> Lower(s[i])]

\* \s of a str pattern and str.strip(), on ASCII: space, \t \n \v \f \r and
\* the separators \x1c..\x1f
IsSpace(c) ==
  c \in {" ", "\t", "\n", "\\x0b", "\f", "\r", "\\x1c", "\\x1d", "\\x1e", "\\x1f"}

\* the element of a set of one element. The({e : v \in {d}}) is
\* LET v == d IN e, with d evaluated once.
The(S) == CHOOSE v \in S : TRUE

Min(S) == CHOOSE x \in S : \A y \in S : x <= y
Max(S) == CHOOSE x \in S : \A y \in S : y <= x

\* the first index >= from of a character of set cs in s (indices start at
\* 1); 0 when there is none
FindAny(s, cs, from) ==
  The({IF hits = {} THEN 0 ELSE Min(hits) :
         hits \in {{i \in from..Len(s) : s[i] \in cs}}})

\* the first index >= from of a character of s that is not in cs; Len(s) + 1
\* when there is none
FindNot(s, cs, from) ==
  The({IF hits = {} THEN Len(s) + 1 ELSE Min(hits) :
         hits \in {{i \in from..Len(s) : s[i] \notin cs}}})

\* s[from-1:] of Python: indices start at 1 here
From(s, from) == SubSeq(s, from, Len(s))

\* s.startswith(lit, i)
StartsWith(s, i, lit) ==
  /\ i >= 1
  /\ i + Len(lit) - 1 <= Len(s)
  /\ \A k \in 1..Len(lit) : s[i + k - 1] = lit[k]

\* the same under re.IGNORECASE; lit is in lower case
StartsWithCI(s, i, lit) ==
  /\ i >= 1
  /\ i + Len(lit) - 1 <= Len(s)
  /\ \A k \in 1..Len(lit) : Lower(s[i + k - 1]) = lit[k]

InSeq(x, s) == \E i \in DOMAIN s : s[i] = x

RECURSIVE CatFrom(_, _)
CatFrom(s, i) == IF i > Len(s) THEN "" ELSE s[i] \o CatFrom(s, i + 1)

\* the characters of s joined into one TLA+ string
Cat(s) == CatFrom(s, 1)

RECURSIVE ReplaceFrom(_, _, _, _)
ReplaceFrom(s, i, old, new) ==
  IF i > Len(s) THEN <<>>
  ELSE IF StartsWith(s, i, old)
       THEN new \o ReplaceFrom(s, i + Len(old), old, new)
       ELSE <<s[i]>> \o ReplaceFrom(s, i + 1, old, new)

\* str.replace(old, new) for a non-empty old: every non-overlapping
\* occurrence, left to right
Replace(s, old, new) == ReplaceFrom(s, 1, old, new)

\* ---------------------------------------------------------------------------
\* The shared pattern, compiled with re.IGNORECASE:
\*   \]\(\s*(https?://[^\s\)]+?\.(?:png|jpe?g|gif))(?:[^\)]*)\)
\* ---------------------------------------------------------------------------
\* \.(?:png|jpe?g|gif) at index d: the index of its last character, or 0
ExtEnd(t, d) ==
  IF StartsWithCI(t, d, <<".", "p", "n", "g">>) THEN d + 3
  ELSE IF StartsWithCI(t, d, <<".", "j", "p", "e", "g">>) THEN d + 4
  ELSE IF StartsWithCI(t, d, <<".", "j", "p", "g">>) THEN d + 3
  ELSE IF StartsWithCI(t, d, <<".", "g", "i", "f">>) THEN d + 3
  ELSE 0

\* [^\s\)]
UrlChar(c) == ~IsSpace(c) /\ c # ")"

\* [^\s\)]+? from index u0, up to the extension: the index of the dot of the
\* first extension that follows at least one character, when every character
\* before it is one of [^\s\)]; 0 when there is none. The lazy quantifier
\* stops at the first extension after which the rest of the pattern matches,
\* and the rest, [^\)]*\), matches after one extension iff it does after all.
LazyExt(t, u0) ==
  The({IF exts # {} /\ \A k \in u0..(Min(exts) - 1) : UrlChar(t[k])
       THEN Min(exts) ELSE 0 :
         exts \in {{d \in (u0 + 1)..Len(t) : ExtEnd(t, d) > 0}}})

\* \s* from index j: the index of the first character that is no space
SkipSpace(t, j) ==
  The({IF hits = {} THEN Max({j, Len(t) + 1}) ELSE Min(hits) :
         hits \in {{i \in j..Len(t) : ~IsSpace(t[i])}}})

NoMatch == [ok |-> FALSE, start |-> 0, gs |-> 0, ge |-> 0, end |-> 0]

\* https? at index j: the index after it
AfterScheme(t, j) ==
  IF StartsWithCI(t, j, <<"h", "t", "t", "p", "s">>) THEN j + 5 ELSE j + 4

\* the match that starts at index i, whose  https?  starts at index j and
\* whose extension has its dot at index d (0: there is none)
MatchGiven(t, i, j, d) ==
  IF d = 0 THEN NoMatch
  ELSE The({IF p = 0 THEN NoMatch
            ELSE [ok |-> TRUE, start |-> i, gs |-> j, ge |-> ExtEnd(t, d), end |-> p] :
              p \in {FindAny(t, {")"}, ExtEnd(t, d) + 1)}})

\* pattern.match(t, i): the match that starts at index i. start..end is
\* group(0), gs..ge is group(1).
PatternMatchAt(t, i) ==
  IF ~StartsWith(t, i, <<"]", "(">>) THEN NoMatch
  ELSE The({IF /\ StartsWithCI(t, j, <<"h", "t", "t", "p">>)
               /\ StartsWith(t, AfterScheme(t, j), <<":", "/", "/">>)
            THEN The({MatchGiven(t, i, j, d) : d \in {LazyExt(t, AfterScheme(t, j) + 3)}})
            ELSE NoMatch :
              j \in {SkipSpace(t, i + 2)}})

RECURSIVE PatternFindIter(_, _)
\* pattern.finditer(t): the non-overlapping matches from index pos on, left
\* to right. A match starts with "]", so the scan goes from one "]" to the
\* next.
PatternFindIter(t, pos) ==
  The({IF i = 0 THEN <<>>
       ELSE The({IF m.ok THEN <<m>> \o PatternFindIter(t, m.end + 1)
                 ELSE PatternFindIter(t, i + 1) :
                   m \in {PatternMatchAt(t, i)}}) :
         i \in {FindAny(t, {"]"}, pos)}})

Group0(t, m) == SubSeq(t, m.start, m.end)
Group1(t, m) == SubSeq(t, m.gs, m.ge)

(***************************************************************************)
(* extract_image_urls                                                       *)
(***************************************************************************)
\* every captured URL is appended, seen before or not
AddUrlAlways(urls, raw) == Append(urls, raw)

\* lines 63-66: a captured URL is appended unless it was seen before (seen
\* holds what urls holds)
AddUrl(urls, raw) == IF InSeq(raw, urls) THEN urls ELSE Append(urls, raw)

RECURSIVE DedupAppend(_, _, _, _)
\* the loop of extract_image_urls from the k-th match of ms on
DedupAppend(t, ms, k, urls) ==
  IF k > Len(ms) THEN urls
  ELSE The({The({DedupAppend(t, ms, k + 1, next) : next \in {AddUrl(urls, raw)}}) :
              raw \in {Group1(t, ms[k])}})

\* extract_image_urls, on the text of the file
extract_image_urls(text) ==
  The({DedupAppend(text, ms, 1, <<>>) : ms \in {PatternFindIter(text, 1)}})

(***************************************************************************)
(* urllib.parse.urlsplit and unquote, os.path.basename (posixpath)          *)
(***************************************************************************)
Letters == {Chr(b) : b \in (Ord("a")..Ord("z")) \cup (Ord("A")..Ord("Z"))}
Digits  == {Chr(b) : b \in Ord("0")..Ord("9")}
HexDigits ==
  Digits \cup {Chr(b) : b \in (Ord("a")..Ord("f")) \cup (Ord("A")..Ord("F"))}
SchemeChars == Letters \cup Digits \cup {"+", "-", "."}
C0ControlOrSpace == {Chr(b) : b \in 0..Ord(" ")}
Spaces == {c \in AsciiSet : IsSpace(c)}

LStrip(s, cs) == From(s, FindNot(s, cs, 1))

RStrip(s, cs) ==
  The({SubSeq(s, 1, IF keep = {} THEN 0 ELSE Max(keep)) :
         keep \in {{i \in DOMAIN s : s[i] \notin cs}}})

\* str.strip()
Strip(s) == The({LStrip(r, Spaces) : r \in {RStrip(s, Spaces)}})

\* s.split(c, 1)[0]: s up to its first character c, all of s when it has none
Before(s, c) ==
  The({IF i = 0 THEN s ELSE SubSeq(s, 1, i - 1) : i \in {FindAny(s, {c}, 1)}})

\* s.split(c, 1)[1], the empty string when s holds no c
After(s, c) ==
  The({IF i = 0 THEN <<>> ELSE From(s, i + 1) : i \in {FindAny(s, {c}, 1)}})

\* the bracketed hosts that ipaddress accepts as IPv6, as far as the model
\* knows them; any other bracketed host that is no IPvFuture literal is
\* refused
KnownIPv6 == { <<":", ":", "1">> }

\* _check_bracketed_host raises ValueError; an IPvFuture literal is
\* \Av[a-fA-F0-9]+\..+\Z
BadBracketedHost(h) ==
  IF h # <<>> /\ h[1] = "v"
  THEN The({~(/\ dot > 2
              /\ \A i \in 2..(dot - 1) : h[i] \in HexDigits
              /\ dot < Len(h)
              /\ \A i \in (dot + 1)..Len(h) : h[i] # "\n") :
                dot \in {FindAny(h, {"."}, 2)}})
  ELSE h \notin KnownIPv6

\* the checks of urlsplit on the netloc
NetlocRaises(netloc) ==
  \/ InSeq("[", netloc) # InSeq("]", netloc)
  \/ /\ InSeq("[", netloc)
     /\ InSeq("]", netloc)
     /\ The({BadBracketedHost(h) : h \in {Before(After(netloc, "["), "]")}})

\* urlsplit from the fragment on: url is what follows the netloc
SplitRest(netloc, url) ==
  The({[raises   |-> NetlocRaises(netloc),
        netloc   |-> netloc,
        path     |-> Before(u, "?"),
        query    |-> After(u, "?"),
        fragment |-> After(url, "#")] :
          u \in {Before(url, "#")}})

\* urlsplit from the netloc on: url is what follows the scheme
SplitNetloc(url) ==
  IF StartsWith(url, 1, <<"/", "/">>)
  THEN The({The({SplitRest(netloc, rest) :
                   netloc \in {SubSeq(url, 3, delim - 1)},
                   rest   \in {From(url, delim)}}) :
              delim \in {The({IF dl = 0 THEN Len(url) + 1 ELSE dl :
                                dl \in {FindAny(url, {"/", "?", "#"}, 3)}})}})
  ELSE SplitRest(<<>>, url)

\* urlsplit once the url is stripped: the scheme (which the program does not
\* use) is cut off
SplitScheme(url) ==
  The({IF /\ i > 1
          /\ url[1] \in Letters
          /\ \A k \in 1..(i - 1) : url[k] \in SchemeChars
       THEN The({SplitNetloc(rest) : rest \in {From(url, i + 1)}})
       ELSE SplitNetloc(url) :
         i \in {FindAny(url, {":"}, 1)}})

\* urlsplit(url): raises is ValueError
urlsplit(url) ==
  The({SplitScheme(u) :
         u \in {SelectSeq(LStrip(url, C0ControlOrSpace),
                          LAMBDA c : c \notin {"\t", "\r", "\n"})}})

\* posixpath.basename
basename(path) ==
  The({IF slashes = {} THEN path ELSE From(path, Max(slashes) + 1) :
         slashes \in {{i \in DOMAIN path : path[i] = "/"}}})

\* the value of a hexadecimal digit, -1 for any other character
HexVal(c) ==
  The({IF o >= Ord("0") /\ o <= Ord("9") THEN o - Ord("0")
       ELSE IF o >= Ord("a") /\ o <= Ord("f") THEN o - Ord("a") + 10
       ELSE IF o >= Ord("A") /\ o <= Ord("F") THEN o - Ord("A") + 10
       ELSE -1 :
         o \in {Ord(c)}})

RECURSIVE UnquoteFrom(_, _)
UnquoteFrom(s, i) ==
  IF i > Len(s) THEN <<>>
  ELSE IF /\ s[i] = "%"
          /\ i + 2 <= Len(s)
          /\ HexVal(s[i + 1]) >= 0
          /\ HexVal(s[i + 2]) >= 0
       THEN <<16 * HexVal(s[i + 1]) + HexVal(s[i + 2])>> \o UnquoteFrom(s, i + 3)
       ELSE <<Ord(s[i])>> \o UnquoteFrom(s, i + 1)

\* unquote_to_bytes on an ASCII string: %XX becomes the byte XX, any other
\* character its code
unquote_to_bytes(s) == UnquoteFrom(s, 1)

RECURSIVE Utf8From(_, _)
Utf8From(bs, i) ==
  IF i > Len(bs) THEN <<>>
  ELSE IF bs[i] < 128 THEN <<Chr(bs[i])>> \o Utf8From(bs, i + 1)
  ELSE IF /\ bs[i] >= 194 /\ bs[i] <= 223
          /\ i + 1 <= Len(bs) /\ bs[i + 1] >= 128 /\ bs[i + 1] <= 191
       THEN <<"U+" \o ToString((bs[i] - 192) * 64 + (bs[i + 1] - 128))>>
            \o Utf8From(bs, i + 2)
  ELSE <<"U+FFFD">> \o Utf8From(bs, i + 1)

\* bytes.decode('utf-8', 'replace'): an ASCII byte is its character, a
\* two-byte sequence is the character U+<code point>, and any other byte is
\* U+FFFD (three- and four-byte sequences are not told apart from invalid
\* ones: none of their characters is one the program looks at)
Utf8Decode(bs) == Utf8From(bs, 1)

\* unquote(string), for a string of ASCII characters
unquote(s) ==
  IF InSeq("%", s) THEN The({Utf8Decode(bs) : bs \in {unquote_to_bytes(s)}}) ELSE s

(***************************************************************************)
(* safe_basename_from_url                                                   *)
(***************************************************************************)
\* hashlib.sha1(url.encode()).hexdigest()[:12], kept symbolic: one token
\* that stands for the twelve hexadecimal digits. Two digests are equal iff
\* their URLs are (no collision among the URLs of the model).
Sha1Hex12(url) == "sha1_12(" \o Cat(url) \o ")"

\* re.search(r'\.(png|jpe?g|gif)$', path, re.IGNORECASE): "." followed by
\* the lower-cased extension, or <<>> when there is no match. $ matches at
\* the end of the string and before a newline that ends it.
ExtAtEnd(path) ==
  The({The({IF hits = {} THEN <<>> ELSE LowerStr(From(p, Min(hits))) :
              hits \in {{d \in DOMAIN p : ExtEnd(p, d) = Len(p)}}}) :
         p \in {IF path # <<>> /\ path[Len(path)] = "\n"
                THEN SubSeq(path, 1, Len(path) - 1) ELSE path}})

\* the characters re.sub replaces: [<>:"/\\|?*\x00-\x1f]
Unsafe == {"<", ">", ":", "\"", "/", "\\", "|", "?", "*"} \cup {Chr(b) : b \in 0..31}

\* line 90
Sanitize(name) == [i \in DOMAIN name |-> IF name[i] \in Unsafe THEN "_" ELSE name[i]]

\* the name built without the digest of the URL
FallbackNameNoDigest(url, u) ==
  Replace(u.netloc, <<":">>, <<"_">>) \o <<"_", ".", "i", "m", "g">>

\* lines 81-88: the name built when the path has no last segment
FallbackName(url, u) ==
  The({Replace(u.netloc, <<":">>, <<"_">>) \o <<"_", Sha1Hex12(url)>>
         \o (IF ext = <<>> THEN <<".", "i", "m", "g">> ELSE ext) :
           ext \in {ExtAtEnd(u.path)}})

\* lines 76-91, for the parts u of the url
NameOf(url, u) ==
  The({The({Sanitize(n) : n \in {IF name = <<>> THEN FallbackName(url, u) ELSE name}}) :
         name \in {unquote(basename(u.path))}})

\* safe_basename_from_url(url): raises is the ValueError of urlsplit
safe_basename_from_url(url) ==
  The({IF u.raises THEN [raises |-> TRUE, name |-> <<>>]
       ELSE [raises |-> FALSE, name |-> NameOf(url, u)] :
         u \in {urlsplit(url)}})

(***************************************************************************)
(* normalize_server_path and the text that new_md writes                    *)
(***************************************************************************)
normalize_server_path(server_path) ==
  IF server_path = <<>> THEN <<>>
  ELSE IF server_path[Len(server_path)] # "/" THEN server_path \o <<"/">>
  ELSE server_path

\* line 210: m.group(0).replace(orig_url, new_url)
Substitute(group0, orig_url, new_url) == Replace(group0, orig_url, new_url)

\* repl(m), lines 205-210: raises when safe_basename_from_url does
repl(t, m, server_path) ==
  The({The({[raises |-> b.raises,
             text   |-> IF b.raises THEN <<>>
                        ELSE Substitute(Group0(t, m), orig_url, server_path \o b.name)] :
               b \in {safe_basename_from_url(orig_url)}}) :
         orig_url \in {Group1(t, m)}})

RECURSIVE Sub(_, _, _, _, _)
\* pattern.sub(repl, t): the text from index pos on, with the matches of ms
\* from the k-th on replaced by what repl returns for them
Sub(t, ms, k, pos, server_path) ==
  IF k > Len(ms) THEN [raises |-> FALSE, text |-> From(t, pos)]
  ELSE The({IF r.raises \/ rest.raises THEN [raises |-> TRUE, text |-> <<>>]
            ELSE [raises |-> FALSE,
                  text   |-> SubSeq(t, pos, ms[k].start - 1) \o r.text \o rest.text] :
              r    \in {repl(t, ms[k], server_path)},
              rest \in {Sub(t, ms, k + 1, ms[k].end + 1, server_path)}})

\* new_md up to the write, lines 200-213: the new text, or raises when repl
\* raised (the exception leaves new_md before the output file is opened)
new_text(text, server_path) ==
  The({Sub(text, ms, 1, 1, sp) :
         ms \in {PatternFindIter(text, 1)},
         sp \in {normalize_server_path(server_path)}})

(***************************************************************************)
(* The state.                                                               *)
(***************************************************************************)
VARIABLES
  files,        \* the markdown files on disk: file id -> text
  mdfile_list,  \* main: what glob returned, a sequence of file ids
  server_path,  \* main: the server path typed in, normalized by main
  mpc,          \* main: where it stands
  mi,           \* main: the index in mdfile_list of the file in hand
  imgs,         \* main: what extract_image_urls returned for that file
  new_files,    \* the rewritten files on disk: file id -> text
  bi,           \* img_download_batch: the index in img_list of the URL in hand
  results,      \* img_download_batch: its list of (url, success, msg)
  calls,        \* the request URLs download_with_resume was called with, in order
  call,         \* the frame of the download_with_resume call in progress
  fs,           \* the files of the file system: path -> bytes
  peer,         \* the frame of a download_with_resume call of another run
  wf            \* where the file each of the two runs has open lies now

vars == <<files, mdfile_list, server_path, mpc, mi, imgs, new_files,
          bi, results, calls, call, fs, peer, wf>>

mainVars  == <<files, mdfile_list, server_path, mpc, mi, imgs, new_files>>
batchVars == <<bi, results, calls>>
raceVars  == <<peer, wf>>

(***************************************************************************)
(* The file system.                                                         *)
(***************************************************************************)
\* no file at the path
Absent == [exists |-> FALSE, data |-> <<>>]

\* the file at a path, as a reader finds it
Read(f, path) ==
  IF path \in DOMAIN f THEN [exists |-> TRUE, data |-> f[path]] ELSE Absent

\* open(path, 'wb') creates or truncates; write appends
WriteFile(f, path, data) ==
  [q \in DOMAIN f \cup {path} |-> IF q = path THEN data ELSE f[q]]

\* os.remove
RemoveFile(f, path) == [q \in DOMAIN f \ {path} |-> f[q]]

\* os.replace(src, dst): one atomic step; nothing changes when both are one
\* path
ReplaceFile(f, src, dst) ==
  IF src = dst THEN f ELSE RemoveFile(WriteFile(f, dst, f[src]), src)

IMAGES_DIR == <<"i", "m", "a", "g", "e", "s">>

\* os.path.join(dest_dir, safe_name), for a name that does not start with "/"
\* (no sanitized name does)
JoinPath(dest_dir, safe_name) == dest_dir \o <<"/">> \o safe_name

\* the body is written where the final file is
TempPathInPlace(dest_path) == dest_path

\* neither run has a file open
NoOpenFile == <<"closed", "closed">>

\* temp_path = dest_path + ".part"
TempPath(dest_path) == dest_path \o <<".", "p", "a", "r", "t">>

(***************************************************************************)
(* download_with_resume                                                     *)
(***************************************************************************)
\* content_length = None
None == -1

\* MAX_RETRIES = 3
MAX_RETRIES == 3

\* the transport sends a request once more than the session allows
CanRetryOnceMore(n) == n <= MAX_RETRIES

\* Retry(total=max_retries, read=max_retries, connect=max_retries): whether
\* the transport, after n retries of a request, sends it again
CanRetry(n) == n < MAX_RETRIES

NoUrl == <<>>

\* no call in progress
Idle ==
  [pc |-> "idle", url |-> NoUrl, safe_name |-> <<>>, dest_path |-> <<>>,
   temp_path |-> <<>>, content_length |-> None, status |-> 0, total |-> 0,
   ret |-> [success |-> FALSE, kind |-> "", name |-> <<>>],
   dest0 |-> Absent, part0 |-> Absent, gets |-> 0, raisedAt |-> "",
   head_length |-> None, body |-> <<>>, src |-> <<0, 0>>, attempts |-> 0]

\* the call as download_with_resume(session, url, dest_dir) begins. dest0,
\* part0, gets, raisedAt, head_length, body and src are a record of the call
\* kept for the properties: the final and temporary files as the call found
\* them, the GET requests it sent, the step that raised, the expected size
\* after the HEAD probe, the bytes written, and the place of the call in the
\* run (which tells the bytes of its response from those of any other).
\* attempts is the transport's count of the retries of the request in hand;
\* it is kept when the request raised and dropped when a response came.
Enter(url, src) ==
  [Idle EXCEPT !.pc = "name", !.url = url, !.src = src]

\* (success, msg); msg is kept as its kind and the name or URL it shows
Return(c, success, kind, name) ==
  [c EXCEPT !.pc = "returned",
            !.ret = [success |-> success, kind |-> kind, name |-> name]]

\* no except clause: the exception leaves the call
Uncaught(c, step) == [c EXCEPT !.pc = "raised", !.raisedAt = step]

\* lines 173-175: except Exception -> return False, "exception: ..."
Caught(c, step) ==
  Return([c EXCEPT !.raisedAt = step], FALSE, "exception", c.url)

\* lines 120-122
ComputePaths(c, f, dest_dir) ==
  LET b    == safe_basename_from_url(c.url)
      dest == JoinPath(dest_dir, b.name)
  IN  IF b.raises THEN Caught(c, "name")
      ELSE [c EXCEPT !.pc = "head", !.safe_name = b.name, !.dest_path = dest,
                     !.temp_path = TempPath(dest),
                     !.dest0 = Read(f, dest), !.part0 = Read(f, TempPath(dest))]

\* a Content-Length header: absent, text that is not all digits, digits
\* that int() refuses (isdigit() is true of a superscript two), or a number
Header(kind, n) == [kind |-> kind, n |-> n]

\* "cl and cl.isdigit()"
IsDigitHeader(h) == h.kind \in {"digits", "superscript"}

\* int(cl) raises ValueError
IntRaises(h) == h.kind = "superscript"

\* an exception of the HEAD probe ends the call
AfterHeadFatal(c, resp) ==
  IF resp.raises THEN Caught(c, "head")
  ELSE [c EXCEPT !.pc = "skip", !.attempts = 0,
                 !.content_length = IF resp.status = 200 /\ resp.cl.kind = "digits"
                                    THEN resp.cl.n ELSE None,
                 !.head_length = IF resp.status = 200 /\ resp.cl.kind = "digits"
                                 THEN resp.cl.n ELSE None]

\* lines 125-134: the HEAD probe; resp.raises is any exception of session.head
AfterHead(c, resp) ==
  LET cl == IF /\ ~resp.raises
               /\ resp.status = 200
               /\ IsDigitHeader(resp.cl)
               /\ ~IntRaises(resp.cl)
            THEN resp.cl.n ELSE None
  IN  [c EXCEPT !.pc = "skip", !.content_length = cl, !.head_length = cl,
                !.attempts = 0]

\* the download is never skipped
SkipCheckNever(c, f) == [c EXCEPT !.pc = "get"]

\* lines 137-140
SkipCheck(c, f) ==
  IF /\ c.dest_path \in DOMAIN f
     /\ c.content_length # None
     /\ Len(f[c.dest_path]) = c.content_length
  THEN Return(c, TRUE, "skip", c.safe_name)
  ELSE [c EXCEPT !.pc = "get"]

\* the status of the response is not looked at
OnResponseAnyStatus(c, r) ==
  IF c.content_length = None /\ IsDigitHeader(r.cl) /\ ~IntRaises(r.cl)
  THEN [c EXCEPT !.pc = "mkdir", !.content_length = r.cl.n]
  ELSE [c EXCEPT !.pc = "mkdir"]

\* lines 144-150: what is done with the response r of session.get
OnResponse(c, r) ==
  IF r.status # 200 THEN Return(c, FALSE, "HTTP", c.url)
  ELSE IF c.content_length = None /\ IsDigitHeader(r.cl)
       THEN IF IntRaises(r.cl) THEN Caught(c, "int")
            ELSE [c EXCEPT !.pc = "mkdir", !.content_length = r.cl.n]
  ELSE [c EXCEPT !.pc = "mkdir"]

\* lines 143-150: session.get and what is read of its headers
AfterGet(c, resp) ==
  IF resp.raises THEN Caught([c EXCEPT !.gets = c.gets + 1], "get")
  ELSE OnResponse([c EXCEPT !.gets = c.gets + 1, !.status = resp.status,
                            !.attempts = 0], resp)

\* line 152: ensure_dir(dest_dir)
AfterEnsureDir(c, raises) ==
  IF raises THEN Caught(c, "mkdir") ELSE [c EXCEPT !.pc = "open"]

\* line 154: open(temp_path, 'wb'), and line 155
AfterOpen(c, raises) ==
  IF raises THEN Caught(c, "open") ELSE [c EXCEPT !.pc = "stream", !.total = 0]

\* lines 156-159: one chunk of r.iter_content; an empty chunk is not written
AfterChunk(c, chunk) ==
  IF chunk # <<>>
  THEN [c EXCEPT !.total = c.total + Len(chunk), !.body = c.body \o chunk]
  ELSE c

\* lines 156-160: iter_content, write, flush or the close of wf raises
StreamRaises(c) == Caught(c, "stream")

\* line 160 and the end of the with block of line 154
AfterStream(c) == [c EXCEPT !.pc = "check"]

\* no length check
IncompleteNever(c) == FALSE

\* lines 162-163: the length check fails
Incomplete(c) == c.content_length # None /\ c.total # c.content_length

\* lines 164-169; an exception of os.remove is swallowed
AfterRemove(c, raises) ==
  Return(IF raises THEN [c EXCEPT !.raisedAt = "remove"] ELSE c,
         FALSE, "incomplete", c.safe_name)

\* lines 171-172
AfterReplace(c, raises) ==
  IF raises THEN Caught(c, "replace")
  ELSE Return(c, TRUE, "downloaded", c.safe_name)


(***************************************************************************)
(* The network.                                                             *)
(***************************************************************************)
Headers ==
  {Header("absent", 0), Header("text", 0), Header("superscript", 0)}
    \cup {Header("digits", n) : n \in 0..MaxBody}

\* what session.head and session.get can give: an exception (after the
\* transport's retries), or a response with a status and a Content-Length
Responses ==
  {[raises |-> TRUE, status |-> 0, cl |-> Header("absent", 0)]}
    \cup {[raises |-> FALSE, status |-> st, cl |-> h] : st \in {200, 404}, h \in Headers}

\* byte k of the body that source src sends: the bodies of two sources
\* differ, and so do the bytes of one body
Byte(src, k) == [src |-> src, k |-> k]

\* the next n bytes of the body of the call's response
NextChunk(c, n) == [j \in 1..n |-> Byte(c.src, c.total + j)]

(***************************************************************************)
(* The steps of download_with_resume.                                       *)
(***************************************************************************)
\* lines 120-122
FetchName ==
  /\ call.pc = "name"
  /\ call' = ComputePaths(call, fs, IMAGES_DIR)
  /\ UNCHANGED <<raceVars, mainVars, batchVars, fs>>

\* lines 125-134
FetchHead ==
  /\ call.pc = "head"
  /\ \E resp \in Responses : call' = AfterHead(call, resp)
  /\ UNCHANGED <<raceVars, mainVars, batchVars, fs>>

\* lines 95-105: an attempt of the request in hand (the HEAD, the GET) ended
\* with a connection error, a timeout or a 500, 502, 503 or 504, and the
\* adapter sends the request again. When no retry is left, session.head or
\* session.get raises: that is a raising response of FetchHead or FetchGet.
FetchRetry ==
  /\ call.pc \in {"head", "get"}
  /\ CanRetry(call.attempts)
  /\ call' = [call EXCEPT !.attempts = call.attempts + 1]
  /\ UNCHANGED <<raceVars, mainVars, batchVars, fs>>

\* lines 137-140
FetchSkipCheck ==
  /\ call.pc = "skip"
  /\ call' = SkipCheck(call, fs)
  /\ UNCHANGED <<raceVars, mainVars, batchVars, fs>>

\* lines 143-150
FetchGet ==
  /\ call.pc = "get"
  /\ \E resp \in Responses : call' = AfterGet(call, resp)
  /\ UNCHANGED <<raceVars, mainVars, batchVars, fs>>

\* line 152
FetchEnsureDir ==
  /\ call.pc = "mkdir"
  /\ \E raises \in BOOLEAN : call' = AfterEnsureDir(call, raises)
  /\ UNCHANGED <<raceVars, mainVars, batchVars, fs>>

\* lines 154-155
FetchOpen ==
  /\ call.pc = "open"
  /\ \E raises \in BOOLEAN :
       /\ call' = AfterOpen(call, raises)
       /\ fs' = IF raises THEN fs ELSE WriteFile(fs, call.temp_path, <<>>)
  /\ UNCHANGED <<raceVars, mainVars, batchVars>>

\* lines 156-159: the next chunk is read and written
FetchChunk ==
  /\ call.pc = "stream"
  /\ \E n \in 0..ChunkSize :
       /\ call.total + n <= MaxBody
       /\ LET chunk == NextChunk(call, n)
          IN  /\ call' = AfterChunk(call, chunk)
              /\ fs' = IF chunk # <<>>
                       THEN WriteFile(fs, call.temp_path, fs[call.temp_path] \o chunk)
                       ELSE fs
  /\ UNCHANGED <<raceVars, mainVars, batchVars>>

\* lines 156-160: reading the body, writing, flushing or closing raises
FetchStreamRaises ==
  /\ call.pc = "stream"
  /\ call' = StreamRaises(call)
  /\ UNCHANGED <<raceVars, mainVars, batchVars, fs>>

\* line 160: the body has ended and the file is closed
FetchStreamEnd ==
  /\ call.pc = "stream"
  /\ call' = AfterStream(call)
  /\ UNCHANGED <<raceVars, mainVars, batchVars, fs>>

\* lines 162-169
FetchIncomplete ==
  /\ call.pc = "check"
  /\ Incomplete(call)
  /\ \E raises \in BOOLEAN :
       /\ call' = AfterRemove(call, raises)
       /\ fs' = IF raises THEN fs ELSE RemoveFile(fs, call.temp_path)
  /\ UNCHANGED <<raceVars, mainVars, batchVars>>

\* lines 171-172
FetchReplace ==
  /\ call.pc = "check"
  /\ ~Incomplete(call)
  /\ \E raises \in BOOLEAN :
       /\ call' = AfterReplace(call, raises)
       /\ fs' = IF raises THEN fs ELSE ReplaceFile(fs, call.temp_path, call.dest_path)
  /\ UNCHANGED <<raceVars, mainVars, batchVars>>

(***************************************************************************)
(* img_download_batch                                                       *)
(***************************************************************************)
\* the URL is requested as it was captured
url_for_req_whole(url) == url

\* line 187: url.split('#')[0].strip()
url_for_req(url) == Strip(Before(url, "#"))

\* the loop ends at the first failure
NextIndexStop(i, success) == IF success THEN i + 1 ELSE Len(imgs) + 1

\* the for loop of line 184 goes on to the next URL, whatever the result
NextIndex(i, success) == i + 1

\* lines 184-188: the next URL is handed to download_with_resume
BatchCall ==
  /\ mpc = "batch"
  /\ call.pc = "idle"
  /\ bi <= Len(imgs)
  /\ call' = Enter(url_for_req(imgs[bi]), <<mi, bi>>)
  /\ calls' = Append(calls, url_for_req(imgs[bi]))
  /\ UNCHANGED <<raceVars, mainVars, bi, results, fs>>

\* lines 188-190: download_with_resume has returned
BatchAppend ==
  /\ mpc = "batch"
  /\ call.pc = "returned"
  /\ results' = Append(results, [url |-> imgs[bi], success |-> call.ret.success,
                                 kind |-> call.ret.kind, name |-> call.ret.name])
  /\ bi' = NextIndex(bi, call.ret.success)
  /\ call' = Idle
  /\ UNCHANGED <<raceVars, mainVars, calls, fs>>

\* line 191
BatchReturn ==
  /\ mpc = "batch"
  /\ call.pc = "idle"
  /\ bi > Len(imgs)
  /\ mpc' = "new_md"
  /\ UNCHANGED <<raceVars, files, mdfile_list, server_path, mi, imgs, new_files,
                 batchVars, call, fs>>

(***************************************************************************)
(* main                                                                     *)
(***************************************************************************)
\* lines 230-233: glob found nothing
MainNoFiles ==
  /\ mpc = "start"
  /\ mdfile_list = <<>>
  /\ mpc' = "done"
  /\ UNCHANGED <<raceVars, files, mdfile_list, server_path, mi, imgs, new_files,
                 batchVars, call, fs>>

\* lines 234-239
MainStart ==
  /\ mpc = "start"
  /\ mdfile_list # <<>>
  /\ server_path' = normalize_server_path(server_path)
  /\ mi' = 1
  /\ mpc' = "extract"
  /\ UNCHANGED <<raceVars, files, mdfile_list, imgs, new_files, batchVars, call, fs>>

\* lines 241-246
MainExtract ==
  /\ mpc = "extract"
  /\ imgs' = extract_image_urls(files[mdfile_list[mi]])
  /\ mpc' = IF imgs' = <<>> THEN "new_md" ELSE "batch"
  /\ bi' = 1
  /\ results' = <<>>
  /\ calls' = <<>>
  /\ UNCHANGED <<raceVars, files, mdfile_list, server_path, mi, new_files, call, fs>>

\* lines 247-248 and the next turn of the loop of line 239. An exception of
\* new_md is not caught: main ends with it.
MainNewMd ==
  /\ mpc = "new_md"
  /\ LET id == mdfile_list[mi]
         r  == new_text(files[id], server_path)
     IN  IF r.raises
         THEN /\ mpc' = "crashed"
              /\ UNCHANGED <<mi, new_files>>
         ELSE /\ new_files' = [d \in DOMAIN new_files \cup {id} |->
                                 IF d = id THEN r.text ELSE new_files[d]]
              /\ mi' = mi + 1
              /\ mpc' = IF mi + 1 > Len(mdfile_list) THEN "done" ELSE "extract"
  /\ UNCHANGED <<raceVars, files, mdfile_list, server_path, imgs, batchVars, call, fs>>

(***************************************************************************)
(* The documents.                                                           *)
(***************************************************************************)
\* the example of the specification
SegExample ==
  <<"!", "[", "x", "]", "(", "h", "t", "t", "p", "s", ":", "/", "/", "a", ".", "c", "o", "m", "/", "i", "m", "g", "/", "p", "i", "c", ".", "p", "n", "g", "?", "v", "=", "2", ")">>

\* the same captured URL, another tail
SegSameUrl ==
  <<"]", "(", "h", "t", "t", "p", "s", ":", "/", "/", "a", ".", "c", "o", "m", "/", "i", "m", "g", "/", "p", "i", "c", ".", "p", "n", "g", "#", "t", "o", "p", ")">>

\* the same URL but for the case of its letters
SegUpper ==
  <<"[", "t", "]", "(", "H", "T", "T", "P", "S", ":", "/", "/", "a", ".", "c", "o", "m", "/", "i", "m", "g", "/", "p", "i", "c", ".", "P", "N", "G", ")">>

\* no last path segment, the extension in the fragment
SegFragment ==
  <<"]", "(", "h", "t", "t", "p", ":", "/", "/", "a", ".", "c", "o", "m", "/", "#", "x", ".", "p", "n", "g", ")">>

\* the captured URL again in the tail, white space before it
SegRepeat ==
  <<"]", "(", "\t", "h", "t", "t", "p", ":", "/", "/", "a", ".", "g", "i", "f", "?", "h", "t", "t", "p", ":", "/", "/", "a", ".", "g", "i", "f", ")">>

\* percent-encoded characters, white space in the tail
SegQuoted ==
  <<"]", "(", "h", "t", "t", "p", ":", "/", "/", "b", ".", "i", "o", "/", "%", "2", "e", "%", "2", "e", "/", "%", "3", "C", "q", "%", "3", "e", ".", "j", "p", "e", "g", " ", "x", ")">>

\* a host that urlsplit refuses
SegBracket ==
  <<"]", "(", "h", "t", "t", "p", ":", "/", "/", "[", "a", ".", "p", "n", "g", ")">>

\* not http or https: no match
SegFtp ==
  <<"]", "(", "f", "t", "p", ":", "/", "/", "a", ".", "c", "o", "m", "/", "x", ".", "p", "n", "g", ")">>

\* no closing parenthesis of its own
SegOpen ==
  <<"]", "(", "h", "t", "t", "p", ":", "/", "/", "a", ".", "c", "o", "m", "/", "y", ".", "j", "p", "g">>

\* plain text
SegText ==
  <<" ", "s", "e", "e", "\n">>

\* the same request URL as SegFragment once the fragment is cut
SegFragment2 ==
  <<"]", "(", "h", "t", "t", "p", ":", "/", "/", "a", ".", "c", "o", "m", "/", "#", "y", ".", "g", "i", "f", ")">>

Segments ==
  << SegExample, SegSameUrl, SegUpper, SegFragment, SegRepeat, SegQuoted,
     SegBracket, SegFtp, SegOpen, SegText >>

RECURSIVE Docs(_)
\* the documents of at most n segments
Docs(n) ==
  IF n = 0 THEN {<<>>}
  ELSE Docs(n - 1) \cup
       {d \o Segments[k] : d \in Docs(n - 1), k \in DOMAIN Segments}

\* the server paths typed in: none, one that ends with "/", one that does not
ServerPaths ==
  { <<>>,
    <<"h", "t", "t", "p", "s", ":", "/", "/", "c", "d", "n", ".", "x", ".", "c", "o", "m", "/", "d", "/">>,
    <<"/", "/", "s">> }

\* the server path of Spec; main adds the "/"
PipeServerPath ==
  <<"h", "t", "t", "p", "s", ":", "/", "/", "c", "d", "n", ".", "x", ".", "c", "o", "m", "/", "d">>

\* the markdown files of Spec: one URL; two URLs with one request URL; a URL
\* that urlsplit refuses; no URL
PipeFiles ==
  << SegExample, SegFragment \o SegText \o SegFragment2, SegBracket, SegText >>

RECURSIVE DistinctSeqs(_, _)
\* the sequences of at most n distinct elements of S
DistinctSeqs(S, n) ==
  IF n = 0 THEN {<<>>}
  ELSE DistinctSeqs(S, n - 1) \cup
       UNION {{Append(q, x) : x \in {y \in S : \A k \in DOMAIN q : q[k] # y}} :
                q \in DistinctSeqs(S, n - 1)}

\* the file of an earlier run that the example's download would replace
PicPath == JoinPath(IMAGES_DIR, <<"p", "i", "c", ".", "p", "n", "g">>)

\* a file of one byte that an earlier run left
OldFile == <<Byte(<<0, 0>>, 1)>>

\* images/ as main finds it: with or without pic.png of an earlier run, with
\* or without a stale pic.png.part
InitialFs ==
  { [q \in ps |-> OldFile] : ps \in SUBSET {PicPath, TempPath(PicPath)} }

(***************************************************************************)
(* Spec: a run of main.                                                     *)
(***************************************************************************)
Init ==
  /\ files = PipeFiles
  /\ mdfile_list \in DistinctSeqs(DOMAIN PipeFiles, MaxFiles)
  /\ server_path = PipeServerPath
  /\ mpc = "start"
  /\ mi = 0
  /\ imgs = <<>>
  /\ new_files = <<>>
  /\ bi = 0
  /\ results = <<>>
  /\ calls = <<>>
  /\ call = Idle
  /\ fs \in InitialFs
  /\ peer = Idle
  /\ wf = NoOpenFile

Next ==
  \/ MainNoFiles \/ MainStart \/ MainExtract \/ MainNewMd
  \/ BatchCall \/ BatchAppend \/ BatchReturn
  \/ FetchName \/ FetchHead \/ FetchRetry \/ FetchSkipCheck \/ FetchGet
  \/ FetchEnsureDir \/ FetchOpen \/ FetchChunk \/ FetchStreamRaises \/ FetchStreamEnd
  \/ FetchIncomplete \/ FetchReplace

Spec == Init /\ [][Next]_vars

(***************************************************************************)
(* SpecText: the extraction pass and the rewriting pass on one document.    *)
(***************************************************************************)
\* lines 55-67
ExtractPass ==
  /\ mpc = "scan"
  /\ imgs' = extract_image_urls(files[1])
  /\ mpc' = "rewrite"
  /\ UNCHANGED <<raceVars, files, mdfile_list, server_path, mi, new_files, batchVars,
                 call, fs>>

\* lines 200-217
RewritePass ==
  /\ mpc = "rewrite"
  /\ LET r == new_text(files[1], server_path)
     IN  IF r.raises
         THEN /\ mpc' = "crashed"
              /\ UNCHANGED new_files
         ELSE /\ mpc' = "done"
              /\ new_files' = <<r.text>>
  /\ UNCHANGED <<raceVars, files, mdfile_list, server_path, mi, imgs, batchVars, call,
                 fs>>

TextInit ==
  /\ files \in {<<d>> : d \in Docs(MaxSegs)}
  /\ mdfile_list = <<1>>
  /\ server_path \in ServerPaths
  /\ mpc = "scan"
  /\ mi = 1
  /\ imgs = <<>>
  /\ new_files = <<>>
  /\ bi = 0
  /\ results = <<>>
  /\ calls = <<>>
  /\ call = Idle
  /\ fs = <<>>
  /\ peer = Idle
  /\ wf = NoOpenFile

TextNext == ExtractPass \/ RewritePass

SpecText == TextInit /\ [][TextNext]_vars

(***************************************************************************)
(* SpecName: safe_basename_from_url on the URLs a document can give it.     *)
(***************************************************************************)
\* the parts of the URLs written in the documents of SpecName: a host (with
\* a port, with user information, with a character no file name may hold, in
\* brackets, with a bracket that is not closed, none at all), a path (none, no
\* last segment, dots, percent-encoded characters) and what follows it
NameHosts ==
  { <<"a", ".", "c", "o", "m">>,
    <<"a", ".", "c", "o", "m", ":", "8", "0">>,
    <<"u", ":", "p", "@", "h">>,
    <<"a", "*", "b">>,
    <<"[", ":", ":", "1", "]", ":", "8">>,
    <<"[", "a">>,
    <<>> }

NamePaths ==
  { <<>>,
    <<"/">>,
    <<"/", "d", "/">>,
    <<"/", "x", ".", "p", "n", "g">>,
    <<"/", ".", ".">>,
    <<"/", ".">>,
    <<"/", "%", "2", "e", "%", "2", "e">>,
    <<"/", "a", "%", "2", "F", "b">>,
    <<"/", "d", "/", "%", "3", "C", "q", "%", "3", "E">>,
    <<"/", "%", "5", "c", "%", "0", "0">> }

NameTails ==
  { <<"?", "v", ".", "p", "n", "g">>,
    <<"#", "f", ".", "G", "I", "F">>,
    <<".", "j", "p", "e", "g">> }

\* a link to the URL u
Link(u) == <<"]", "(">> \o u \o <<")">>

\* the URLs written in the documents
WrittenUrls ==
  { <<"h", "t", "t", "p", ":", "/", "/">> \o h \o pa \o t :
      h \in NameHosts, pa \in NamePaths, t \in NameTails }

\* the URLs extract_image_urls returns for the documents: what new_md hands
\* to safe_basename_from_url
CapturedUrls ==
  UNION { The({ {urls[i] : i \in DOMAIN urls} :
                  urls \in {extract_image_urls(Link(w))} }) : w \in WrittenUrls }

\* the URLs img_download_batch hands to download_with_resume for them
RequestUrls == { url_for_req(u) : u \in CapturedUrls }

\* lines 120-122 of a call for one of these URLs
NameInit ==
  /\ files = <<>>
  /\ mdfile_list = <<>>
  /\ server_path = <<>>
  /\ mpc = "batch"
  /\ mi = 0
  /\ imgs = <<>>
  /\ new_files = <<>>
  /\ bi = 0
  /\ results = <<>>
  /\ calls = <<>>
  /\ call \in {Enter(u, <<0, 0>>) : u \in CapturedUrls \cup RequestUrls}
  /\ fs = <<>>
  /\ peer = Idle
  /\ wf = NoOpenFile

NameNext == FetchName

SpecName == NameInit /\ [][NameNext]_vars

(***************************************************************************)
(* SpecRace: two runs execute download_with_resume for one URL into one     *)
(* directory at the same time. Each step of either run is one step; the     *)
(* runs share the file system and nothing else. An open file is the file,   *)
(* not its path: a run goes on writing to the file it opened after the      *)
(* other run truncated, renamed or removed it (POSIX).                      *)
(***************************************************************************)
Runs == 1..2

\* the frame of run r
Frame(r) == IF r = 1 THEN call ELSE peer

\* run r's frame becomes f, the other run's frame stays
SetFrame(r, f) ==
  IF r = 1 THEN call' = f /\ peer' = peer ELSE peer' = f /\ call' = call

\* the URL both runs download
RaceUrl ==
  <<"h", "t", "t", "p", "s", ":", "/", "/", "a", ".", "c", "o", "m", "/", "i", "m", "g", "/", "p", "i", "c", ".", "p", "n", "g">>

\* the server answers both runs alike: a request raises, or it is answered
\* with 200, with or without the length of the whole body
RaceResponses ==
  { resp \in Responses :
      \/ resp.raises
      \/ /\ resp.status = 200
         /\ resp.cl \in {Header("absent", 0), Header("digits", MaxBody)} }

\* a byte of a file that was never written: the hole a write leaves when it
\* lands beyond the end of the file
Hole == Byte(<<0, 0>>, 0)

\* wf.write(chunk) at the offset off of the open file
WriteAt(data, off, chunk) ==
  [i \in 1..Max({Len(data), off + Len(chunk)}) |->
     IF i > off /\ i <= off + Len(chunk) THEN chunk[i - off]
     ELSE IF i <= Len(data) THEN data[i]
     ELSE Hole]

\* the path at which the file run r has open lies now, <<>> when it lies
\* nowhere (it was removed, or another file was renamed onto it)
OpenPath(r) ==
  IF wf[r] = "part" THEN Frame(r).temp_path
  ELSE IF wf[r] = "dest" THEN Frame(r).dest_path
  ELSE <<>>

\* lines 120-122
RaceName(r) ==
  /\ Frame(r).pc = "name"
  /\ SetFrame(r, ComputePaths(Frame(r), fs, IMAGES_DIR))
  /\ UNCHANGED <<mainVars, batchVars, fs, wf>>

\* lines 125-134
RaceHead(r) ==
  /\ Frame(r).pc = "head"
  /\ \E resp \in RaceResponses : SetFrame(r, AfterHead(Frame(r), resp))
  /\ UNCHANGED <<mainVars, batchVars, fs, wf>>

\* lines 137-140
RaceSkipCheck(r) ==
  /\ Frame(r).pc = "skip"
  /\ SetFrame(r, SkipCheck(Frame(r), fs))
  /\ UNCHANGED <<mainVars, batchVars, fs, wf>>

\* lines 143-150
RaceGet(r) ==
  /\ Frame(r).pc = "get"
  /\ \E resp \in RaceResponses : SetFrame(r, AfterGet(Frame(r), resp))
  /\ UNCHANGED <<mainVars, batchVars, fs, wf>>

\* line 152
RaceEnsureDir(r) ==
  /\ Frame(r).pc = "mkdir"
  /\ SetFrame(r, AfterEnsureDir(Frame(r), FALSE))
  /\ UNCHANGED <<mainVars, batchVars, fs, wf>>

\* lines 154-155: open(temp_path, 'wb') truncates the file at the path when
\* there is one (the other run may have it open) and makes one when not
RaceOpen(r) ==
  /\ Frame(r).pc = "open"
  /\ SetFrame(r, AfterOpen(Frame(r), FALSE))
  /\ fs' = WriteFile(fs, Frame(r).temp_path, <<>>)
  /\ wf' = [wf EXCEPT ![r] = "part"]
  /\ UNCHANGED <<mainVars, batchVars>>

\* lines 156-159: the chunk is written to the open file, wherever it lies
RaceChunk(r) ==
  /\ Frame(r).pc = "stream"
  /\ \E n \in 1..ChunkSize :
       /\ Frame(r).total + n <= MaxBody
       /\ LET chunk == NextChunk(Frame(r), n)
          IN  /\ SetFrame(r, AfterChunk(Frame(r), chunk))
              /\ fs' = IF OpenPath(r) = <<>> THEN fs
                       ELSE WriteFile(fs, OpenPath(r),
                                      WriteAt(fs[OpenPath(r)], Frame(r).total, chunk))
  /\ UNCHANGED <<mainVars, batchVars, wf>>

\* lines 156-160: the body raises; the with block closes the file
RaceStreamRaises(r) ==
  /\ Frame(r).pc = "stream"
  /\ SetFrame(r, StreamRaises(Frame(r)))
  /\ wf' = [wf EXCEPT ![r] = "closed"]
  /\ UNCHANGED <<mainVars, batchVars, fs>>

\* line 160 and the end of the with block of line 154
RaceStreamEnd(r) ==
  /\ Frame(r).pc = "stream"
  /\ SetFrame(r, AfterStream(Frame(r)))
  /\ wf' = [wf EXCEPT ![r] = "closed"]
  /\ UNCHANGED <<mainVars, batchVars, fs>>

\* lines 162-169: os.remove raises when the other run has renamed or removed
\* the file; a file the other run has open at the path lies nowhere then
RaceIncomplete(r) ==
  /\ Frame(r).pc = "check"
  /\ Incomplete(Frame(r))
  /\ LET there == Frame(r).temp_path \in DOMAIN fs
     IN  /\ SetFrame(r, AfterRemove(Frame(r), ~there))
         /\ fs' = IF there THEN RemoveFile(fs, Frame(r).temp_path) ELSE fs
         /\ wf' = [s \in Runs |-> IF there /\ wf[s] = "part" THEN "gone" ELSE wf[s]]
  /\ UNCHANGED <<mainVars, batchVars>>

\* lines 171-172: os.replace raises when the other run has renamed or
\* removed the file; a file the other run has open goes with the rename
RaceReplace(r) ==
  /\ Frame(r).pc = "check"
  /\ ~Incomplete(Frame(r))
  /\ LET there == Frame(r).temp_path \in DOMAIN fs
     IN  /\ SetFrame(r, AfterReplace(Frame(r), ~there))
         /\ fs' = IF there
                  THEN ReplaceFile(fs, Frame(r).temp_path, Frame(r).dest_path)
                  ELSE fs
         /\ wf' = [s \in Runs |-> IF ~there THEN wf[s]
                                  ELSE IF wf[s] = "part" THEN "dest"
                                  ELSE IF wf[s] = "dest" THEN "gone"
                                  ELSE wf[s]]
  /\ UNCHANGED <<mainVars, batchVars>>

RaceInit ==
  /\ files = <<>>
  /\ mdfile_list = <<>>
  /\ server_path = <<>>
  /\ mpc = "batch"
  /\ mi = 0
  /\ imgs = <<>>
  /\ new_files = <<>>
  /\ bi = 0
  /\ results = <<>>
  /\ calls = <<>>
  /\ call = Enter(RaceUrl, <<1, 1>>)
  /\ peer = Enter(RaceUrl, <<1, 1>>)
  /\ wf = NoOpenFile
  /\ fs \in { f \in InitialFs : TempPath(PicPath) \notin DOMAIN f }

RaceNext ==
  \E r \in Runs :
    \/ RaceName(r) \/ RaceHead(r) \/ RaceSkipCheck(r) \/ RaceGet(r)
    \/ RaceEnsureDir(r) \/ RaceOpen(r) \/ RaceChunk(r) \/ RaceStreamRaises(r)
    \/ RaceStreamEnd(r) \/ RaceIncomplete(r) \/ RaceReplace(r)

SpecRace == RaceInit /\ [][RaceNext]_vars

(***************************************************************************)
(* The properties.                                                          *)
(***************************************************************************)
\* download_with_resume has returned
Returned == call.pc = "returned"

\* the final file and the temporary file of the call, as they are now
DestNow == Read(fs, call.dest_path)
PartNow == Read(fs, call.temp_path)

\* a file that holds exactly the bytes the call wrote
Whole == [exists |-> TRUE, data |-> call.body]

\* the call got as far as streaming the body
Streamed ==
  \/ call.ret.kind \in {"incomplete", "downloaded"}
  \/ call.raisedAt \in {"stream", "replace"}

\* C1: when an expected size is known and the number of body bytes streamed
\* differs from it, the call returns the failure "incomplete download", the
\* final file is what it was before the call, and no .part file is left.
C1_IncompleteCleansUp ==
  (Returned /\ Streamed /\ call.content_length # None
            /\ call.total # call.content_length) =>
    /\ ~call.ret.success
    /\ call.ret.kind = "incomplete"
    /\ DestNow = call.dest0
    /\ ~PartNow.exists

\* C2: the name under which a download of URL U is stored (the name of the
\* request URL, U without its fragment) is the name new_md puts in place of
\* U (the name of U as captured), and the file of that name is in images/.
C2_SameName ==
  \A i \in DOMAIN results :
    results[i].success =>
      The({ /\ ~b.raises
            /\ b.name = results[i].name
            /\ JoinPath(IMAGES_DIR, b.name) \in DOMAIN fs :
              b \in {safe_basename_from_url(results[i].url)} })

\* C3: during a call the final path holds what it held before the call or
\* the whole new file. It changes in one step only, the replace after the
\* length check has passed, and body bytes are written to the .part path
\* only.
C3_FinalFileWhole ==
  [][call.pc \notin {"idle", "name"} =>
       /\ DestNow \in {call.dest0, Whole}
       /\ Read(fs', call.dest_path) # DestNow =>
            /\ call.pc = "check"
            /\ ~Incomplete(call)
            /\ PartNow = Whole
            /\ Read(fs', call.dest_path) = Whole
            /\ call'.ret.kind = "downloaded"
       /\ (call.pc = "stream" /\ call'.body # call.body) =>
            fs' = WriteFile(fs, call.temp_path, call'.body)
    ]_vars

\* a download of two chunks has replaced the file of an earlier run
C3_Witness ==
  /\ Returned
  /\ call.ret.kind = "downloaded"
  /\ call.dest0.exists
  /\ Len(call.body) >= 2
  /\ DestNow = Whole
  /\ DestNow # call.dest0

\* C4: no exception leaves download_with_resume: whatever the network and
\* the file system do, the call ends by returning a (success, message) pair,
\* and success is False when a step after the HEAD probe raised.
C4_NeverRaises ==
  /\ call.pc \in {"idle", "name", "head", "skip", "get", "mkdir", "open",
                  "stream", "check", "returned"}
  /\ call.raisedAt # "" => Returned
  /\ Returned =>
       /\ call.ret.success \in BOOLEAN
       /\ call.ret.kind \in {"skip", "HTTP", "incomplete", "downloaded", "exception"}
       /\ call.raisedAt # "" => ~call.ret.success
       /\ call.raisedAt \notin {"", "remove"} => call.ret.kind = "exception"

\* the body raised after a byte was written, and the call returned a failure
C4_Witness ==
  /\ Returned
  /\ call.raisedAt = "stream"
  /\ Len(call.body) >= 1
  /\ ~call.ret.success

\* C5: img_download_batch calls download_with_resume once per URL of its
\* list, one call at a time and in list order, and its i-th result carries the
\* i-th URL; when it returns there is one result per URL, failures included.
C5_OneResultPerUrl ==
  /\ Len(results) <= Len(imgs)
  /\ \A i \in DOMAIN results : results[i].url = imgs[i]
  /\ Len(calls) = Len(results) + (IF call.pc = "idle" THEN 0 ELSE 1)
  /\ \A i \in DOMAIN calls : calls[i] = url_for_req(imgs[i])
  /\ mpc # "batch" => Len(results) = Len(imgs)

\* the batch has returned; its first download failed, its second succeeded
C5_Witness ==
  /\ mpc = "new_md"
  /\ Len(results) = 2
  /\ ~results[1].success
  /\ results[2].success

\* the final file exists and has the size the HEAD probe gave
SkipCase ==
  /\ call.pc \notin {"idle", "name", "head"}
  /\ call.dest0.exists
  /\ call.head_length # None
  /\ Len(call.dest0.data) = call.head_length

\* C6: when the final file exists and its size is the size the HEAD probe
\* gave, the call returns success with a "skip" message, sends no GET, makes
\* no .part file and leaves the final file as it was.
C6_Skip ==
  SkipCase =>
    /\ call.pc \in {"skip", "returned"}
    /\ call.gets = 0
    /\ DestNow = call.dest0
    /\ PartNow = call.part0
    /\ Returned =>
         /\ call.ret.success
         /\ call.ret.kind = "skip"
         /\ call.ret.name = call.safe_name

\* the call has skipped a download, with no .part file before or after
C6_Witness ==
  /\ SkipCase
  /\ Returned
  /\ call.ret.kind = "skip"
  /\ ~call.part0.exists
  /\ ~PartNow.exists

\* the matches of the shared pattern in the document of SpecText
Matches == PatternFindIter(files[1], 1)

RECURSIVE Spliced(_, _, _, _, _)
\* the text t from index pos on where, in each match of ms from the k-th on,
\* the characters of the captured URL, and no others, give way to the server
\* path sp and the name derived from the captured URL
Spliced(t, ms, k, pos, sp) ==
  IF k > Len(ms) THEN From(t, pos)
  ELSE The({ SubSeq(t, pos, ms[k].gs - 1) \o sp \o b.name
               \o SubSeq(t, ms[k].ge + 1, ms[k].end) \o rest :
               b    \in {safe_basename_from_url(Group1(t, ms[k]))},
               rest \in {Spliced(t, ms, k + 1, ms[k].end + 1, sp)} })

\* C7: new_md replaces, in every match of the pattern, the captured URL by
\* the server path and the name derived from it, and leaves every other
\* character of the match and of the document unchanged.
C7_OnlyUrlReplaced ==
  mpc = "done" =>
    new_files[1] =
      The({ Spliced(files[1], ms, 1, 1, sp) :
              ms \in {Matches}, sp \in {normalize_server_path(server_path)} })

\* C8: extract_image_urls returns the distinct captured URLs of the matches,
\* each once, in the order of their first occurrences, and the empty list
\* when nothing matches.
C8_DistinctInOrder ==
  mpc # "scan" =>
    The({ /\ \A i, j \in DOMAIN imgs : imgs[i] = imgs[j] => i = j
          /\ {imgs[i] : i \in DOMAIN imgs} = {caps[k] : k \in DOMAIN caps}
          /\ \A i, j \in DOMAIN imgs :
               i < j => Min({k \in DOMAIN caps : caps[k] = imgs[i]})
                          < Min({k \in DOMAIN caps : caps[k] = imgs[j]})
          /\ caps = <<>> => imgs = <<>> :
            caps \in {[k \in DOMAIN Matches |-> Group1(files[1], Matches[k])]} })

\* two matches capture one URL, and it was returned once
C8_Witness ==
  /\ mpc = "rewrite"
  /\ Len(Matches) = 2
  /\ Len(imgs) = 1

\* C9: main runs new_md for every document and the rewritten document is
\* written, whatever the downloads did: when main has ended, every document
\* of the list has its rewritten file.
C9_AlwaysRewritten ==
  mpc \in {"done", "crashed"} =>
    \A k \in DOMAIN mdfile_list : mdfile_list[k] \in DOMAIN new_files

\* C10: when the status of the GET response is not 200, the call returns a
\* failure, and the .part file and the final file are what they were before
\* the call.
C10_Non200 ==
  call.status \notin {0, 200} =>
    /\ Returned
    /\ call.gets = 1
    /\ ~call.ret.success
    /\ call.ret.kind = "HTTP"
    /\ DestNow = call.dest0
    /\ PartNow = call.part0
    /\ call.body = <<>>

\* a 404 was returned for a URL whose file of an earlier run is there
C10_Witness ==
  /\ Returned
  /\ call.status = 404
  /\ call.dest0.exists
  /\ ~call.part0.exists
  /\ ~PartNow.exists
  /\ ~call.ret.success

\* how far a call is from its return: the steps of download_with_resume in
\* reverse order
PcRank ==
  [ idle |-> 10, name |-> 9, head |-> 8, skip |-> 7, get |-> 6, mkdir |-> 5,
    open |-> 4, stream |-> 3, check |-> 2, returned |-> 1 ]

\* what one step of a call can use up: the retries of a request and the
\* bytes of a body (a body is taken to end)
StepWeight == MAX_RETRIES + MaxBody + 1

\* what is left of the batch: the URLs without a result, then the steps of
\* the call in hand, then the retries of its request and the rest of its body
BatchMeasure ==
  (Len(imgs) - Len(results)) * (11 * StepWeight)
    + PcRank[call.pc] * StepWeight
    + (MAX_RETRIES - call.attempts)
    + (MaxBody - call.total)

Forbidden ==
  {"<", ">", ":", "\"", "/", "\\", "|", "?", "*"} \cup {Chr(b) : b \in 0..31}

\* safe_basename_from_url has been applied to call.url
Named == call.pc # "name"

\* C12: for every URL, safe_basename_from_url returns a name, the name is
\* not empty, and none of its characters is one of < > : " / \ | ? * or a
\* control character.
C12_SafeName ==
  Named =>
    /\ call.raisedAt # "name"
    /\ call.safe_name # <<>>
    /\ \A i \in DOMAIN call.safe_name : call.safe_name[i] \notin Forbidden

\* the extension a fallback name gets: the lower-cased extension the path
\* ends with, .img when it ends with none
ClaimedExt(path) ==
  IF \E e \in {<<".", "p", "n", "g">>, <<".", "j", "p", "g">>,
               <<".", "j", "p", "e", "g">>, <<".", "g", "i", "f">>} :
       /\ Len(path) >= Len(e)
       /\ LowerStr(SubSeq(path, Len(path) - Len(e) + 1, Len(path))) = e
  THEN LowerStr(From(path, Max({i \in DOMAIN path : path[i] = "."})))
  ELSE <<".", "i", "m", "g">>

\* <host with ":" replaced by "_">_<digest><ext>
ClaimedFallback(url, u) ==
  [i \in DOMAIN u.netloc |-> IF u.netloc[i] = ":" THEN "_" ELSE u.netloc[i]]
    \o <<"_", Sha1Hex12(url)>> \o ClaimedExt(u.path)

\* the path of the URL has no last segment
NoLastSegment(u) ==
  ~u.raises /\ (u.path = <<>> \/ u.path[Len(u.path)] = "/")

\* C13 as stated: for a URL whose path has no last segment the name is
\* <host with ":" replaced by "_">_<digest><ext>, where ext is the lower-cased
\* extension the path ends with, or .img.
C13_FallbackAsStated ==
  Named =>
    The({ NoLastSegment(u) => call.safe_name = ClaimedFallback(call.url, u) :
            u \in {urlsplit(call.url)} })

\* C13, amended: for a URL whose path has no last segment the name is
\* <host>_<digest><ext> with every character of the host that is one of
\* < > : " / \ | ? * or a control character replaced by "_".
C13_Fallback ==
  Named =>
    The({ NoLastSegment(u) =>
            The({ /\ call.raisedAt # "name"
                  /\ call.safe_name =
                       [i \in DOMAIN n |-> IF n[i] \in Forbidden THEN "_" ELSE n[i]] :
                    n \in {ClaimedFallback(call.url, u)} }) :
            u \in {urlsplit(call.url)} })

\* the fallback name of http://a*b/d/?v.png: the "*" of the host is replaced
C13_Witness ==
  /\ Named
  /\ call.url = <<"h", "t", "t", "p", ":", "/", "/", "a", "*", "b", "/", "d", "/", "?", "v", ".", "p", "n", "g">>
  /\ call.safe_name = <<"a", "_", "b", "_", Sha1Hex12(call.url), ".", "i", "m", "g">>

\* C19: for every URL the extractor returns, the name derived from its
\* request URL is one path component and neither "." nor "..", so that the
\* destination path is an entry of dest_dir itself.
C19_InsideDestDir ==
  (Named /\ call.raisedAt # "name" /\ call.url \in RequestUrls) =>
    /\ call.safe_name # <<>>
    /\ \A i \in DOMAIN call.safe_name : call.safe_name[i] \notin {"/", "\\"}
    /\ call.safe_name \notin {<<".">>, <<".", ".">>}
    /\ call.dest_path = IMAGES_DIR \o <<"/">> \o call.safe_name

\* C14: after a call that returns a failure, whatever the reason, and that
\* found no .part file, there is no .part file and the final file is what it
\* was before the call.
C14_FailureLeavesNothing ==
  (Returned /\ ~call.ret.success /\ ~call.part0.exists) =>
    /\ ~PartNow.exists
    /\ DestNow = call.dest0

\* a response of the HEAD probe that gives no expected size
NoSize(resp) == resp.raises \/ resp.status # 200 \/ resp.cl.kind # "digits"

\* the HEAD probe is over and has given no expected size
HeadUnknown ==
  /\ call.pc \notin {"idle", "name", "head"}
  /\ call.raisedAt # "name"
  /\ call.head_length = None

\* C16: a HEAD probe that raises, that answers with another status than 200
\* or that carries no numeric Content-Length does not end the call: the call
\* does not skip, goes on to the GET without an expected size, and takes the
\* numeric Content-Length of the GET response as the expected size of its
\* length check.
C16_HeadNotFatal ==
  /\ call.pc = "head" =>
       \A resp \in Responses :
         NoSize(resp) => /\ AfterHead(call, resp).pc = "skip"
                         /\ AfterHead(call, resp).content_length = None
                         /\ AfterHead(call, resp).head_length = None
  /\ HeadUnknown =>
       /\ call.ret.kind # "skip"
       /\ call.raisedAt # "head"
       /\ call.pc \in {"skip", "get"} => call.content_length = None
       /\ call.pc \notin {"skip", "get"} => call.gets = 1
       /\ call.pc = "get" =>
            \A resp \in Responses :
              (~resp.raises /\ resp.status = 200 /\ resp.cl.kind = "digits") =>
                /\ AfterGet(call, resp).pc = "mkdir"
                /\ AfterGet(call, resp).content_length = resp.cl.n
       /\ (Returned /\ call.ret.kind = "downloaded" /\ call.content_length # None) =>
            call.total = call.content_length
       /\ (Returned /\ call.ret.kind = "incomplete") =>
            (call.content_length # None /\ call.total # call.content_length)

\* without a size from the HEAD probe, a download of the two bytes that the
\* GET response announced has succeeded
C16_Witness ==
  /\ HeadUnknown
  /\ Returned
  /\ call.ret.kind = "downloaded"
  /\ call.content_length = 2
  /\ Len(call.body) = 2

\* C17: the URL handed to download_with_resume is the extracted URL up to
\* its first "#", so two URLs that differ in their fragments only are
\* requested, named and checked for skipping as one, and the result carries
\* the URL as it was extracted.
C17_FragmentStripped ==
  /\ \A i \in DOMAIN calls :
       /\ ~InSeq("#", calls[i])
       /\ Len(calls[i]) <= Len(imgs[i])
       /\ calls[i] = SubSeq(imgs[i], 1, Len(calls[i]))
       /\ Len(calls[i]) < Len(imgs[i]) => imgs[i][Len(calls[i]) + 1] = "#"
  /\ \A i \in DOMAIN results : results[i].url = imgs[i]
  /\ call.pc # "idle" => call.url = calls[Len(calls)]
  /\ \A i, j \in DOMAIN results :
       (/\ calls[i] = calls[j]
        /\ results[i].kind \in {"skip", "downloaded", "incomplete"}
        /\ results[j].kind \in {"skip", "downloaded", "incomplete"}) =>
         results[i].name = results[j].name

\* two URLs with different fragments: the first was downloaded, the second
\* skipped as the same file
C17_Witness ==
  /\ Len(results) = 2
  /\ results[1].url # results[2].url
  /\ calls[1] = calls[2]
  /\ results[1].kind = "downloaded"
  /\ results[2].kind = "skip"
  /\ results[1].name = results[2].name

\* C18: when the call returns a success the final file exists; its size is
\* the expected size when one is known; and after "downloaded" it holds
\* exactly the bytes streamed in this call and no .part file is left.
C18_SuccessMeansFile ==
  (Returned /\ call.ret.success) =>
    /\ call.ret.kind \in {"skip", "downloaded"}
    /\ DestNow.exists
    /\ call.content_length # None => Len(DestNow.data) = call.content_length
    /\ call.ret.kind = "downloaded" =>
         /\ DestNow = Whole
         /\ Len(call.body) = call.total
         /\ ~PartNow.exists

\* a download of the expected two bytes has succeeded where a stale .part
\* file lay
C18_Witness ==
  /\ Returned
  /\ call.ret.kind = "downloaded"
  /\ call.content_length = 2
  /\ call.part0.exists
  /\ ~PartNow.exists
  /\ DestNow = Whole

\* the final path of the two runs, and the file at it
RaceDest == JoinPath(IMAGES_DIR, <<"p", "i", "c", ".", "p", "n", "g">>)

\* C15: when two runs download one URL into one directory at the same time,
\* the final path holds, in every reachable state, no file, the file of an
\* earlier run, or the whole body that a run has downloaded: never a partly
\* written file.
C15_FinalFileWholeInRace ==
  \/ RaceDest \notin DOMAIN fs
  \/ fs[RaceDest] = OldFile
  \/ \E r \in Runs :
       /\ Frame(r).pc = "returned"
       /\ Frame(r).ret.kind = "downloaded"
       /\ fs[RaceDest] = Frame(r).body

=============================================================================
